---- MODULE Spec2Model ----
(***************************************************************************)
(* Two-stage LLM task-execution pipeline (planner -> executor -> function  *)
(* registry).  Python strings are TLA+ strings, read with Len, SubSeq and  *)
(* \o; Python values are tagged records [t, v]; None is PyNone.            *)
(***************************************************************************)
EXTENDS Integers, Sequences, FiniteSets, TLC

(***************************************************************************)
(* Bounds of the model                                                     *)
(***************************************************************************)
\* longest planner subtask list a run is followed through
MaxSubtasks == 2
\* most entries of an argument mapping handed to execute_function directly
MaxArgs == 3

(***************************************************************************)
(* Python values                                                           *)
(***************************************************************************)
PyNone == [t |-> "none", v |-> "None"]
PyStr(s) == [t |-> "str", v |-> s]
PyBool(b) == [t |-> "bool", v |-> IF b THEN "True" ELSE "False"]
PyInt(digits) == [t |-> "int", v |-> digits]
PyFloat(repr) == [t |-> "float", v |-> repr]

\* str(x) of a Python value
PyToStr(x) == x.v

\* truthiness of a Python value, as used by "if not x"
Truthy(x) ==
    CASE x.t = "none" -> FALSE
      [] x.t = "str" -> x.v # ""
      [] x.t = "bool" -> x.v = "True"
      [] OTHER -> TRUE

EmptyDict == [k \in {} |-> PyNone]

(***************************************************************************)
(* Characters and string helpers                                           *)
(***************************************************************************)
Whitespace == {" ", "\n", "\t", "\r"}
Digits == {"0", "1", "2", "3", "4", "5", "6", "7", "8", "9"}
LowerLetters == {"a", "b", "c", "d", "e", "f", "g", "h", "i", "j", "k", "l", "m",
                 "n", "o", "p", "q", "r", "s", "t", "u", "v", "w", "x", "y", "z"}
UpperLetters == {"A", "B", "C", "D", "E", "F", "G", "H", "I", "J", "K", "L", "M",
                 "N", "O", "P", "Q", "R", "S", "T", "U", "V", "W", "X", "Y", "Z"}
WordChars == LowerLetters \cup UpperLetters \cup Digits \cup {"_"}

Ch(s, k) == SubSeq(s, k, k)

\* s[a:b] with 1-based inclusive bounds; empty when a > b
Slice(s, a, b) == IF a > b THEN "" ELSE SubSeq(s, a, b)

StartsWith(s, p) == Len(s) >= Len(p) /\ Slice(s, 1, Len(p)) = p
EndsWith(s, p) == Len(s) >= Len(p) /\ Slice(s, Len(s) - Len(p) + 1, Len(s)) = p
Contains(s, p) == \E k \in 1..(Len(s) - Len(p) + 1) : Slice(s, k, k + Len(p) - 1) = p

\* str.strip()
Strip(s) ==
    LET keep == {k \in 1..Len(s) : Ch(s, k) \notin Whitespace}
    IN  IF keep = {} THEN ""
        ELSE Slice(s, CHOOSE a \in keep : \A k \in keep : a <= k,
                      CHOOSE b \in keep : \A k \in keep : b >= k)

LowerChar(c) ==
    CASE c = "A" -> "a" [] c = "B" -> "b" [] c = "C" -> "c" [] c = "D" -> "d"
      [] c = "E" -> "e" [] c = "F" -> "f" [] c = "G" -> "g" [] c = "H" -> "h"
      [] c = "I" -> "i" [] c = "J" -> "j" [] c = "K" -> "k" [] c = "L" -> "l"
      [] c = "M" -> "m" [] c = "N" -> "n" [] c = "O" -> "o" [] c = "P" -> "p"
      [] c = "Q" -> "q" [] c = "R" -> "r" [] c = "S" -> "s" [] c = "T" -> "t"
      [] c = "U" -> "u" [] c = "V" -> "v" [] c = "W" -> "w" [] c = "X" -> "x"
      [] c = "Y" -> "y" [] c = "Z" -> "z" [] OTHER -> c

RECURSIVE Lower(_)
\* str.lower()
Lower(s) == IF s = "" THEN "" ELSE LowerChar(Ch(s, 1)) \o Lower(Slice(s, 2, Len(s)))

\* positions of character c in s
Positions(s, c) == {k \in 1..Len(s) : Ch(s, k) = c}
Min(S) == CHOOSE a \in S : \A k \in S : a <= k
Max(S) == CHOOSE a \in S : \A k \in S : a >= k

\* str.isdigit() on the model's alphabet
IsDigit(s) == s # "" /\ \A k \in 1..Len(s) : Ch(s, k) \in Digits

\* s.replace(".", "", 1)
DropFirstDot(s) ==
    IF Positions(s, ".") = {} THEN s
    ELSE LET d == Min(Positions(s, "."))
         IN  Slice(s, 1, d - 1) \o Slice(s, d + 1, Len(s))

RECURSIVE StripLeadingZeros(_)
StripLeadingZeros(s) ==
    IF Len(s) > 1 /\ Ch(s, 1) = "0" THEN StripLeadingZeros(Slice(s, 2, Len(s))) ELSE s

RECURSIVE StripTrailingZeros(_)
StripTrailingZeros(s) ==
    IF Len(s) > 1 /\ Ch(s, Len(s)) = "0" THEN StripTrailingZeros(Slice(s, 1, Len(s) - 1)) ELSE s

\* int(value) for a digit string: the value, written canonically
IntOf(s) == PyInt(StripLeadingZeros(s))

\* float(value) for digits with one decimal point: the value, written as repr
FloatOf(s) ==
    LET d == Min(Positions(s, "."))
        ip == Slice(s, 1, d - 1)
        fp == Slice(s, d + 1, Len(s))
    IN  PyFloat(StripLeadingZeros(IF ip = "" THEN "0" ELSE ip) \o "." \o
                StripTrailingZeros(IF fp = "" THEN "0" ELSE fp))

(***************************************************************************)
(* Call Parser: function_ops.parse_function_call                           *)
(***************************************************************************)
DictSet(d, key, val) == [k \in DOMAIN d \cup {key} |-> IF k = key THEN val ELSE d[k]]

\* variant: the text before the first "(" is the name, wherever the "(" is
MatchNameLen_UpToParen(s) ==
    IF Positions(s, "(") = {} THEN 0 ELSE Min(Positions(s, "(")) - 1

\* re.match(r'(\w+)\s*\(', s): length of group 1, or 0 when there is no match
MatchNameLen(s) ==
    LET nonword == {k \in 1..Len(s) : Ch(s, k) \notin WordChars}
        wlen == IF nonword = {} THEN Len(s) ELSE Min(nonword) - 1
        rest == {k \in (wlen + 1)..Len(s) : Ch(s, k) \notin Whitespace}
    IN  IF wlen = 0 \/ rest = {} THEN 0
        ELSE IF Ch(s, Min(rest)) = "(" THEN wlen ELSE 0

\* re.search(r'\((.*)\)', s, re.DOTALL): <<found, group 1>>
SearchArgs(s) ==
    LET opens == Positions(s, "(")
        closes == IF opens = {} THEN {} ELSE {k \in Positions(s, ")") : k > Min(opens)}
    IN  IF closes = {} THEN [found |-> FALSE, group |-> ""]
        ELSE [found |-> TRUE, group |-> Slice(s, Min(opens) + 1, Max(closes) - 1)]

RECURSIVE SplitScan_AnyQuoteCloses(_, _, _, _, _, _)
\* variant: either quote character closes an open string
SplitScan_AnyQuoteCloses(s, k, in_string, quote_char, current_arg, args_list) ==
    IF k > Len(s)
    THEN IF current_arg # "" THEN Append(args_list, Strip(current_arg)) ELSE args_list
    ELSE IF Ch(s, k) \in {"\"", "'"}
         THEN SplitScan_AnyQuoteCloses(s, k + 1, ~in_string, "", current_arg \o Ch(s, k), args_list)
         ELSE IF Ch(s, k) = "," /\ ~in_string
              THEN SplitScan_AnyQuoteCloses(s, k + 1, in_string, quote_char, "",
                                            Append(args_list, Strip(current_arg)))
              ELSE SplitScan_AnyQuoteCloses(s, k + 1, in_string, quote_char,
                                            current_arg \o Ch(s, k), args_list)

RECURSIVE SplitScan(_, _, _, _, _, _)
\* the character scan of lines 112-128: splits on commas outside quotes
SplitScan(s, k, in_string, quote_char, current_arg, args_list) ==
    IF k > Len(s)
    THEN IF current_arg # "" THEN Append(args_list, Strip(current_arg)) ELSE args_list
    ELSE LET char == Ch(s, k)
         IN  IF char \in {"\"", "'"}
             THEN IF ~in_string
                  THEN SplitScan(s, k + 1, TRUE, char, current_arg \o char, args_list)
                  ELSE IF char = quote_char
                       THEN SplitScan(s, k + 1, FALSE, "", current_arg \o char, args_list)
                       ELSE SplitScan(s, k + 1, in_string, quote_char, current_arg \o char, args_list)
             ELSE IF char = "," /\ ~in_string
                  THEN SplitScan(s, k + 1, in_string, quote_char, "",
                                 Append(args_list, Strip(current_arg)))
                  ELSE SplitScan(s, k + 1, in_string, quote_char, current_arg \o char, args_list)

SplitArgs(args_str) == SplitScan(args_str, 1, FALSE, "", "", <<>>)

\* lines 138-155: the value of one key=value fragment, from its stripped text
CoerceValue(value) ==
    IF (StartsWith(value, "\"") /\ EndsWith(value, "\""))
       \/ (StartsWith(value, "'") /\ EndsWith(value, "'"))
    THEN PyStr(Slice(value, 2, Len(value) - 1))
    ELSE IF Lower(value) = "true" THEN PyBool(TRUE)
    ELSE IF Lower(value) = "false" THEN PyBool(FALSE)
    ELSE IF Lower(value) = "none" THEN PyNone
    ELSE IF IsDigit(DropFirstDot(value))
         THEN IF Positions(value, ".") # {} THEN FloatOf(value) ELSE IntOf(value)
    ELSE PyStr(value)

RECURSIVE ProcessArgs(_, _, _)
\* lines 131-157: the argument dictionary of the fragments args_list[k..]
ProcessArgs(args_list, k, args_dict) ==
    IF k > Len(args_list) THEN args_dict
    ELSE LET arg == args_list[k]
             eqs == Positions(arg, "=")
         IN  IF eqs = {} THEN ProcessArgs(args_list, k + 1, args_dict)
             ELSE LET key == Strip(Slice(arg, 1, Min(eqs) - 1))
                      value == Strip(Slice(arg, Min(eqs) + 1, Len(arg)))
                  IN  ProcessArgs(args_list, k + 1, DictSet(args_dict, key, CoerceValue(value)))

\* parse_function_call(func_call_str) -> [name, args]; name is PyNone or a str
parse_function_call(func_call_str) ==
    LET nlen == MatchNameLen(func_call_str)
        func_name == PyStr(Slice(func_call_str, 1, nlen))
        args_match == SearchArgs(func_call_str)
        args_str == Strip(args_match.group)
    IN  IF nlen = 0 THEN [name |-> PyNone, args |-> EmptyDict]
        ELSE IF ~args_match.found THEN [name |-> func_name, args |-> EmptyDict]
        ELSE IF args_str = "" THEN [name |-> func_name, args |-> EmptyDict]
        ELSE [name |-> func_name, args |-> ProcessArgs(SplitArgs(args_str), 1, EmptyDict)]

\* lines 95-99: the stripped text between the first "(" and the last ")", ""
\* when line 90 or line 97 returns first
ArgsString(func_call_str) ==
    IF MatchNameLen(func_call_str) = 0 \/ ~SearchArgs(func_call_str).found THEN ""
    ELSE Strip(SearchArgs(func_call_str).group)

\* lines 107-128: args_list, empty when the function returns before line 104
ArgsList(func_call_str) ==
    IF ArgsString(func_call_str) = "" THEN <<>> ELSE SplitArgs(ArgsString(func_call_str))

(***************************************************************************)
(* The functions directory: modules and the functions they define          *)
(***************************************************************************)
\* directories that exist on disk; any other path is not a directory
ExistingDirs == {"functions"}

\* the .py files os.walk finds under "functions", in scan order
ModuleFiles == <<"text_file_read.py", "file_ops.py", "file_compression.py", "email_services.py">>

\* the sets of modules whose import fails that a load is followed through
\* (email_services.py imports the third-party pytz)
BrokenSets == {{}, {"email_services.py"}}

\* inspect.getmembers(module, inspect.isfunction) of each module, in name order
ModuleFunctions(m) ==
    CASE m = "text_file_read.py" -> <<"ai_read_file">>
      [] m = "file_ops.py" -> <<"ai_create_folders", "ai_get_file_list", "ai_get_unique_file_types",
                                "ai_move_files_to_folder", "organize_files", "remove_readonly">>
      [] m = "file_compression.py" -> <<"ai_compress_images_in_folder", "compress_image">>
      [] m = "email_services.py" -> <<"ai_send_calendar_invite", "ai_send_email">>
      [] OTHER -> <<>>

\* inspect.signature(func).parameters of each ai_ function, in order
Parameters(name) ==
    CASE name = "ai_read_file" -> <<"filepath">>
      [] name = "ai_get_file_list" -> <<"path">>
      [] name = "ai_get_unique_file_types" -> <<>>
      [] name = "ai_create_folders" -> <<"base_path">>
      [] name = "ai_move_files_to_folder" -> <<"source_folder">>
      [] name = "ai_compress_images_in_folder" -> <<"folder_path">>
      [] name = "ai_send_email" -> <<"subject", "body">>
      [] name = "ai_send_calendar_invite" -> <<"subject", "body", "start_time", "end_time", "timezone">>
      [] OTHER -> <<>>

\* parameters that have a default value
DefaultedParameters(name) == IF name = "ai_create_folders" THEN {"base_path"} ELSE {}

Range(seq) == {seq[k] : k \in 1..Len(seq)}

\* an exception object: its class and str(e)
Exc(type, msg) == [type |-> type, msg |-> msg]
NoExc == Exc("", "")

\* what the body of a registered function can do once its arguments are bound:
\* return a value, or raise; which one is decided by the world outside (files,
\* environment variables, network)
Returned(value) == [raised |-> FALSE, exc |-> NoExc, value |-> value]
Raised(exc) == [raised |-> TRUE, exc |-> exc, value |-> PyNone]

BodyOutcomes(name) ==
    CASE name = "ai_read_file" ->
            {Returned(PyStr("Send email reminder")),
             Raised(Exc("FileNotFoundError", "[Errno 2] No such file or directory"))}
      [] name = "ai_get_file_list" ->
            {Returned(PyNone), Raised(Exc("FileNotFoundError", "Directory not found"))}
      [] name = "ai_get_unique_file_types" -> {Returned(PyNone)}
      [] name = "ai_create_folders" ->
            {Returned(PyNone), Raised(Exc("PermissionError", "[Errno 13] Permission denied"))}
      [] name = "ai_move_files_to_folder" ->
            {Returned(PyNone), Raised(Exc("FileNotFoundError", "Source folder not found"))}
      [] name = "ai_compress_images_in_folder" -> {Returned(PyNone)}
      [] name = "ai_send_email" ->
            {Returned(PyNone),
             Raised(Exc("ValueError", "EMAIL_PASSWORD environment variable is not set.")),
             Raised(Exc("SMTPAuthenticationError", "(535, b'Username and Password not accepted')"))}
      [] name = "ai_send_calendar_invite" ->
            {Returned(PyNone),
             Raised(Exc("ValueError", "EMAIL_PASSWORD environment variable is not set.")),
             Raised(Exc("ValueError", "Invalid time zone"))}
      [] OTHER -> {Returned(PyNone)}

AllOutcomes == UNION {BodyOutcomes(n) : n \in UNION {Range(ModuleFunctions(ModuleFiles[k])) : k \in 1..Len(ModuleFiles)}}

(***************************************************************************)
(* Call Parser: the try block and the handler of parse_function_call       *)
(***************************************************************************)
\* type(x).__name__
TypeName(x) ==
    CASE x.t = "none" -> "NoneType" [] x.t = "str" -> "str" [] x.t = "int" -> "int"
      [] x.t = "float" -> "float" [] x.t = "bool" -> "bool" [] OTHER -> "object"

\* lines 87-159, the try block, on any argument: re.match (line 88) raises
\* TypeError when the argument is not a str; on a str nothing gets past the
\* handler of line 154
TryParse(value) ==
    IF value.t # "str"
    THEN [raised |-> TRUE,
          exc |-> Exc("TypeError", "expected string or bytes-like object, got '"
                                   \o TypeName(value) \o "'"),
          name |-> PyNone, args |-> EmptyDict]
    ELSE [raised |-> FALSE, exc |-> NoExc,
          name |-> parse_function_call(value.v).name, args |-> parse_function_call(value.v).args]

\* variant: no handler at line 161; what the try block raises reaches the caller
ParseAny_Propagate(try, value) ==
    [raised |-> try.raised, exc |-> try.exc, name |-> try.name, args |-> try.args, log |-> <<>>]

\* lines 86, 161-163: the handler around the try block.  try is the outcome
\* of the try block on value
ParseAny(try, value) ==
    IF try.raised
    THEN [raised |-> FALSE, exc |-> NoExc, name |-> PyNone, args |-> EmptyDict,
          log |-> <<"Error parsing function call '" \o PyToStr(value) \o "': " \o try.exc.msg>>]
    ELSE [raised |-> FALSE, exc |-> NoExc, name |-> try.name, args |-> try.args, log |-> <<>>]

(***************************************************************************)
(* Function Registry: function_ops.load_functions_from_directory           *)
(***************************************************************************)
RECURSIVE RegisterFunctions(_, _, _, _)
\* lines 36-38: register the members of module m whose name starts with "ai_"
RegisterFunctions(registry, m, members, k) ==
    IF k > Len(members) THEN registry
    ELSE IF StartsWith(members[k], "ai_")
         THEN RegisterFunctions(DictSet(registry, members[k], [module |-> m, name |-> members[k]]),
                                m, members, k + 1)
         ELSE RegisterFunctions(registry, m, members, k + 1)

RECURSIVE ScanModules_Abort(_, _, _, _)
\* variant: no try/except around the import; the first failing module ends the scan
ScanModules_Abort(registry, errors, broken, k) ==
    IF k > Len(ModuleFiles) THEN [registry |-> registry, log |-> errors, raised |-> FALSE]
    ELSE IF ModuleFiles[k] \in broken
         THEN [registry |-> registry, log |-> errors, raised |-> TRUE]
         ELSE ScanModules_Abort(RegisterFunctions(registry, ModuleFiles[k],
                                                  ModuleFunctions(ModuleFiles[k]), 1),
                                errors, broken, k + 1)

RECURSIVE ScanModules(_, _, _, _)
\* lines 23-44: the walk over the files; broken is the set of modules whose
\* import raises.  Result: [registry, log]
ScanModules(registry, errors, broken, k) ==
    IF k > Len(ModuleFiles) THEN [registry |-> registry, log |-> errors, raised |-> FALSE]
    ELSE LET filename == ModuleFiles[k]
         IN  IF EndsWith(filename, ".py") /\ ~StartsWith(filename, "__")
             THEN IF filename \in broken
                  THEN ScanModules(registry, Append(errors, "Error loading module " \o filename),
                                   broken, k + 1)
                  ELSE ScanModules(RegisterFunctions(registry, filename, ModuleFunctions(filename), 1),
                                   errors, broken, k + 1)
             ELSE ScanModules(registry, errors, broken, k + 1)

\* load_functions_from_directory(directory): [registry, log, raised]
load_functions_from_directory(registry, directory, broken) ==
    IF directory \notin ExistingDirs
    THEN [registry |-> registry,
          log |-> <<"Directory " \o directory \o " does not exist!">>,
          raised |-> FALSE]
    ELSE ScanModules(registry, <<>>, broken, 1)

(***************************************************************************)
(* Function Registry: function_ops.extract_function_metadata               *)
(***************************************************************************)
RECURSIVE MembersFrom(_)
\* the members of the modules ModuleFiles[k..], in scan order
MembersFrom(k) ==
    IF k > Len(ModuleFiles) THEN <<>>
    ELSE ModuleFunctions(ModuleFiles[k]) \o MembersFrom(k + 1)

\* variant: the registry is a list and every registration appends to it
InsertionOrder_AppendAll(order, registry) ==
    order \o SelectSeq(MembersFrom(1), LAMBDA n : n \in DOMAIN registry)

\* line 38 on a dict: a key stays where it was first inserted, a new key goes
\* to the end; one load inserts in scan order.  The key order after a load
\* that left the registry given, from the key order before it
InsertionOrder(order, registry) ==
    order \o SelectSeq(MembersFrom(1), LAMBDA n : n \in DOMAIN registry /\ n \notin Range(order))

\* str(inspect.signature(func))
Signature(name) ==
    CASE name = "ai_read_file" -> "(filepath: str) -> None"
      [] name = "ai_get_file_list" -> "(path: str) -> None"
      [] name = "ai_get_unique_file_types" -> "() -> None"
      [] name = "ai_create_folders" -> "(base_path: str = '.') -> None"
      [] name = "ai_move_files_to_folder" -> "(source_folder: str) -> None"
      [] name = "ai_compress_images_in_folder" -> "(folder_path: str) -> None"
      [] name = "ai_send_email" -> "(subject: str, body: str) -> None"
      [] name = "ai_send_calendar_invite" ->
            "(subject: str, body: str, start_time: str, end_time: str, timezone: str)"
      [] OTHER -> "()"

\* inspect.getdoc(func) or "": the first line of each docstring stands for it
Docstring(name) ==
    CASE name = "ai_read_file" -> "Reads the content of a file and stores it in the global variable 'text_file_data'."
      [] name = "ai_get_file_list" -> "Returns a list of files in a directory and its subdirectories."
      [] name = "ai_get_unique_file_types" -> "Extracts unique file extensions from a list of file paths."
      [] name = "ai_create_folders" -> "Creates organized folders based on file types and returns their paths."
      [] name = "ai_move_files_to_folder" -> "Moves files from source folder to their respective organized folders."
      [] name = "ai_compress_images_in_folder" -> "Recursively compress all images in the specified folder and subdirectories."
      [] name = "ai_send_email" -> "Sends an email with the given subject and body using Gmail's SMTP server."
      [] name = "ai_send_calendar_invite" -> "Sends a calendar invite (ICS file) via email with proper time zone handling."
      [] OTHER -> ""

\* the functions declared with a return annotation
ReturnAnnotated(name) == name # "ai_send_calendar_invite"

\* lines 60-64: {param: str(hint)} over inspect.get_annotations(func)
TypeHints(name) ==
    [p \in Range(Parameters(name)) \cup (IF ReturnAnnotated(name) THEN {"return"} ELSE {}) |->
        IF p = "return" THEN "None" ELSE "<class 'str'>"]

\* extract_function_metadata(): the list that json.dumps serialises, one
\* descriptor per item of function_registry, in key order
extract_function_metadata(registry, order) ==
    [k \in 1..Len(order) |->
        [name |-> order[k],
         signature |-> Signature(registry[order[k]].name),
         docstring |-> Docstring(registry[order[k]].name),
         type_hints |-> TypeHints(registry[order[k]].name)]]

(***************************************************************************)
(* Function Dispatcher: function_ops.execute_function                      *)
(***************************************************************************)
\* variant: the argument mapping is passed on unfiltered
FilterArgs_PassAll(params, args, k, valid_args) == args

RECURSIVE FilterArgs(_, _, _, _)
\* lines 186-189: keep the entries of args whose key is a declared parameter
FilterArgs(params, args, k, valid_args) ==
    IF k > Len(params) THEN valid_args
    ELSE IF params[k] \in DOMAIN args
         THEN FilterArgs(params, args, k + 1, DictSet(valid_args, params[k], args[params[k]]))
         ELSE FilterArgs(params, args, k + 1, valid_args)

\* the declared parameters without a default that the call leaves unbound, in order
MissingParams(name, kwargs) ==
    SelectSeq(Parameters(name), LAMBDA p : p \notin DefaultedParameters(name) /\ p \notin DOMAIN kwargs)

RECURSIVE QuoteList(_, _)
\* "'a'", "'a' and 'b'", "'a', 'b', and 'c'"
QuoteList(names, k) ==
    IF k = Len(names) THEN (IF Len(names) = 1 THEN "" ELSE "and ") \o "'" \o names[k] \o "'"
    ELSE "'" \o names[k] \o "'" \o (IF Len(names) = 2 THEN " " ELSE ", ") \o QuoteList(names, k + 1)

\* the TypeError Python raises when func(**kwargs) leaves required parameters unbound
MissingArgsError(name, missing) ==
    Exc("TypeError", name \o "() missing " \o ToString(Len(missing)) \o " required positional argument"
                     \o (IF Len(missing) = 1 THEN "" ELSE "s") \o ": " \o QuoteList(missing, 1))

\* func(**kwargs): binds the arguments, then runs the body with the outcome
\* the outside world decides
Invoke(name, kwargs, outcome) ==
    IF MissingParams(name, kwargs) # <<>>
    THEN Raised(MissingArgsError(name, MissingParams(name, kwargs)))
    ELSE outcome

\* variant: a name that is not registered is passed over and None is returned
execute_function_Lenient(registry, func_name, args, outcome) ==
    IF func_name \notin DOMAIN registry
    THEN [raised |-> FALSE, exc |-> NoExc, value |-> PyNone, calls |-> <<>>, log |-> <<>>]
    ELSE LET func == registry[func_name]
             valid_args == FilterArgs(Parameters(func.name), args, 1, EmptyDict)
             res == Invoke(func.name, valid_args, outcome)
         IN  [raised |-> res.raised, exc |-> res.exc, value |-> res.value,
              calls |-> <<[func |-> func, kwargs |-> valid_args,
                           bound |-> MissingParams(func.name, valid_args) = <<>>,
                           raised |-> res.raised, exc |-> res.exc]>>,
              log |-> IF res.raised
                      THEN <<"Error executing function '" \o func_name \o "': " \o res.exc.msg>>
                      ELSE <<>>]

\* variant: the exception of the callable is raised again with a message tagged
\* with the function name
execute_function_Tagged(registry, func_name, args, outcome) ==
    IF func_name \notin DOMAIN registry
    THEN [raised |-> TRUE,
          exc |-> Exc("ValueError", "Function '" \o func_name \o "' not found in registry"),
          value |-> PyNone, calls |-> <<>>, log |-> <<>>]
    ELSE LET func == registry[func_name]
             valid_args == FilterArgs(Parameters(func.name), args, 1, EmptyDict)
             res == Invoke(func.name, valid_args, outcome)
             tagged == "Error executing function '" \o func_name \o "': " \o res.exc.msg
         IN  [raised |-> res.raised,
              exc |-> IF res.raised THEN Exc(res.exc.type, tagged) ELSE res.exc,
              value |-> res.value,
              calls |-> <<[func |-> func, kwargs |-> valid_args,
                           bound |-> MissingParams(func.name, valid_args) = <<>>,
                           raised |-> res.raised, exc |-> res.exc]>>,
              log |-> IF res.raised THEN <<tagged>> ELSE <<>>]

\* execute_function(func_name, args):
\*   [raised, exc, value, calls (the callables invoked, with their kwargs), log]
execute_function(registry, func_name, args, outcome) ==
    IF func_name \notin DOMAIN registry
    THEN [raised |-> TRUE,
          exc |-> Exc("ValueError", "Function '" \o func_name \o "' not found in registry"),
          value |-> PyNone, calls |-> <<>>, log |-> <<>>]
    ELSE LET func == registry[func_name]
             valid_args == FilterArgs(Parameters(func.name), args, 1, EmptyDict)
             res == Invoke(func.name, valid_args, outcome)
         IN  [raised |-> res.raised, exc |-> res.exc, value |-> res.value,
              calls |-> <<[func |-> func, kwargs |-> valid_args,
                           bound |-> MissingParams(func.name, valid_args) = <<>>,
                           raised |-> res.raised, exc |-> res.exc]>>,
              log |-> IF res.raised
                      THEN <<"Error executing function '" \o func_name \o "': " \o res.exc.msg>>
                      ELSE <<>>]

(***************************************************************************)
(* Planner extraction: LLM_ops.process_llm1_response                       *)
(***************************************************************************)
\* re.search(r"\[(.*?)\]", response, re.DOTALL): <<found, group 0>>
SearchList(response) ==
    LET opens == Positions(response, "[")
        closes == IF opens = {} THEN {} ELSE {k \in Positions(response, "]") : k > Min(opens)}
    IN  IF closes = {} THEN [found |-> FALSE, group |-> ""]
        ELSE [found |-> TRUE, group |-> Slice(response, Min(opens), Min(closes))]

\* one element of a list display, from its stripped source text:
\* [status |-> "ok" | "error" | "type_error", value]
LiteralElement(src) ==
    IF Len(src) >= 2
       /\ ((StartsWith(src, "'") /\ EndsWith(src, "'") /\ Positions(Slice(src, 2, Len(src) - 1), "'") = {})
           \/ (StartsWith(src, "\"") /\ EndsWith(src, "\"")
               /\ Positions(Slice(src, 2, Len(src) - 1), "\"") = {}))
       /\ Positions(src, "\\") = {} /\ Positions(src, "\n") = {}
    THEN [status |-> "ok", value |-> PyStr(Slice(src, 2, Len(src) - 1))]
    ELSE IF src = "True" THEN [status |-> "ok", value |-> PyBool(TRUE)]
    ELSE IF src = "False" THEN [status |-> "ok", value |-> PyBool(FALSE)]
    ELSE IF src = "None" THEN [status |-> "ok", value |-> PyNone]
    ELSE IF IsDigit(src) /\ (Len(src) = 1 \/ Ch(src, 1) # "0")
         THEN [status |-> "ok", value |-> PyInt(src)]
    \* a set display holding an unhashable element: TypeError
    ELSE IF src \in {"{{}}", "{{1}}"} THEN [status |-> "type_error", value |-> PyNone]
    \* anything else: SyntaxError, or ValueError (malformed node)
    ELSE [status |-> "error", value |-> PyNone]

RECURSIVE LiteralElements(_, _, _)
LiteralElements(srcs, k, values) ==
    IF k > Len(srcs) THEN [status |-> "ok", value |-> values]
    ELSE LET e == LiteralElement(srcs[k])
         IN  IF e.status # "ok" THEN [status |-> e.status, value |-> <<>>]
             ELSE LiteralElements(srcs, k + 1, Append(values, e.value))

\* ast.literal_eval of the bracketed text "[...]" (no "]" inside):
\* [status |-> "ok" | "error" | "type_error", value |-> the list]
literal_eval(text) ==
    LET inner == Slice(text, 2, Len(text) - 1)
        parts == SplitArgs(inner)
        \* a trailing comma after the last element is allowed
        srcs == IF Len(parts) > 1 /\ parts[Len(parts)] = ""
                THEN SubSeq(parts, 1, Len(parts) - 1) ELSE parts
    IN  IF Strip(inner) = "" THEN [status |-> "ok", value |-> <<>>]
        ELSE LiteralElements(srcs, 1, <<>>)

RECURSIVE SplitLines(_, _, _, _)
\* response.split('\n')
SplitLines(s, k, current, lines) ==
    IF k > Len(s) THEN Append(lines, current)
    ELSE IF Ch(s, k) = "\n" THEN SplitLines(s, k + 1, "", Append(lines, current))
    ELSE SplitLines(s, k + 1, current \o Ch(s, k), lines)

\* re.sub(r'^\s*[\d\-\*]+\.\s*', '', line)
StripMarker(line) ==
    LET nonws == {k \in 1..Len(line) : Ch(line, k) \notin Whitespace}
        a == IF nonws = {} THEN Len(line) + 1 ELSE Min(nonws)
        nonmark == {k \in a..Len(line) : Ch(line, k) \notin (Digits \cup {"-", "*"})}
        b == IF nonmark = {} THEN Len(line) + 1 ELSE Min(nonmark)
        after == {k \in (b + 1)..Len(line) : Ch(line, k) \notin Whitespace}
    IN  IF b > a /\ b <= Len(line) /\ Ch(line, b) = "."
        THEN IF after = {} THEN "" ELSE Slice(line, Min(after), Len(line))
        ELSE line

RECURSIVE ListItems(_, _, _)
\* lines 185-191: the lines that look like list items, markers removed
ListItems(lines, k, potential_list) ==
    IF k > Len(lines) THEN potential_list
    ELSE LET line == lines[k]
             clean_line == Strip(StripMarker(line))
         IN  IF clean_line # "" /\ line # clean_line
             THEN ListItems(lines, k + 1, Append(potential_list, PyStr(clean_line)))
             ELSE ListItems(lines, k + 1, potential_list)

\* process_llm1_response(response): [raised, exc, value |-> the subtask list]
process_llm1_response(response) ==
    LET match == SearchList(response)
        lit == literal_eval(match.group)
        potential_list == ListItems(SplitLines(response, 1, "", <<>>), 1, <<>>)
    IN  IF match.found
        THEN CASE lit.status = "ok" -> [raised |-> FALSE, exc |-> NoExc, value |-> lit.value]
               [] lit.status = "error" -> [raised |-> FALSE, exc |-> NoExc, value |-> <<>>]
               [] OTHER -> [raised |-> TRUE, exc |-> Exc("TypeError", "unhashable type: 'dict'"),
                            value |-> <<>>]
        ELSE IF potential_list # <<>>
             THEN [raised |-> FALSE, exc |-> NoExc, value |-> potential_list]
             ELSE [raised |-> FALSE, exc |-> NoExc, value |-> <<PyStr(Strip(response))>>]

(***************************************************************************)
(* The collaborators: callers of run_agent and the two models              *)
(***************************************************************************)
Tasks == {"organise the folder and send a reminder"}
FunctionDirs == {"functions", "no_such_dir"}

\* what get_llm1_completion can return (its own failure text included)
PlannerReplies ==
    {"['read the file', 'send a reminder']",
     "Plan: ['list files', 'make folders', 'compress images'] done",
     "[]",
     "[list files, make folders]",
     "1. do x\n2. do y",
     "[{{}}]",
     "An error occurred while generating the response."}

\* the code-fence marker, three backticks
BackTick == SubSeq("`'", 1, 1)
Fence == BackTick \o BackTick \o BackTick

\* what get_llm2_completion can return (its own failure text included)
ExecutorReplies ==
    {"ai_get_unique_file_types()",
     "ai_send_email(subject='Hi, all', body=\"x\", cc='y')",
     "ai_send_email(subject='Hi')",
     "ai_delete_all(path='/')",
     Fence \o "ai_read_file(filepath='perform_tasks.txt')" \o Fence,
     Fence \o "python\nai_get_file_list(path='un_organized')\n" \o Fence,
     "An error occurred while generating the response."}

(***************************************************************************)
(* State                                                                   *)
(***************************************************************************)
VARIABLES
    function_registry,  \* function_ops.function_registry: name -> function object
    pc,                 \* where run_agent is: Idle, Planning, Executing, Replied, Done, Raised
    user_task,          \* the user_task of run_agent
    functions_dir,      \* the functions_dir of run_agent
    subtasks,           \* the subtask list of the planner
    i,                  \* the loop index of run_agent (0-based)
    llm2_response,      \* the executor reply of the attempt in progress
    subtask_result,     \* the SubtaskResult of the attempt in progress
    results,            \* the RunResult under construction
    raised,             \* the exception that escaped run_agent, NoExc when none
    log,                \* the error-level log lines of this run
    attempts,           \* history: the attempts started in this run, in order
    dispatches,         \* history: the calls of execute_function in this run
    ex,                 \* the last direct call of execute_function and its outcome
    registry_order,     \* list(function_registry): the keys in insertion order
    ld,                 \* the last direct call of load_functions_from_directory
    pr,                 \* the last direct call of parse_function_call
    px,                 \* the last direct call of process_llm1_response
    log_queue,          \* queue_handler.log_queue: the lines put and not yet taken
    accumulated_logs,   \* queue_handler.accumulated_logs
    thread_completed,   \* the Event thread_completed: set or not
    agent_pc,           \* where the thread of agent_execution is
    agent_script,       \* the records that thread has still to log
    emitted,            \* the number of records emitted since the handler was cleared
    msg,                \* the local msg of the emit in progress
    ui_pc,              \* where the generator run_agent_with_real_time_logs is
    current_logs,       \* the list that get_logs is filling
    shown,              \* the value of the last gr.update the generator yielded
    accesses            \* history: which thread touched which log storage, and how

\* the records of the direct calls of the loader, the parser and the extraction
directVars == <<ld, pr, px>>

\* the state of the pipeline itself
coreVars == <<function_registry, pc, user_task, functions_dir, subtasks, i, llm2_response,
              subtask_result, results, raised, log, attempts, dispatches, ex, registry_order>>

\* the state of the log-streaming front end
uiVars == <<log_queue, accumulated_logs, thread_completed, agent_pc, agent_script, emitted,
            msg, ui_pc, current_logs, shown, accesses>>

vars == <<function_registry, pc, user_task, functions_dir, subtasks, i, llm2_response,
          subtask_result, results, raised, log, attempts, dispatches, ex, registry_order,
          directVars, uiVars>>

NoResults == [task |-> "", subtasks |-> <<>>, success |-> TRUE, error |-> PyNone]
NoSubtaskResult == [id |-> 0, description |-> PyNone, function_call |-> PyNone,
                    success |-> FALSE, result |-> PyNone, error |-> PyNone]
NoCall == [called |-> FALSE, func_name |-> "", args |-> EmptyDict, registry |-> EmptyDict,
           world |-> [raised |-> FALSE, exc |-> NoExc, value |-> PyNone],
           raised |-> FALSE, exc |-> NoExc, value |-> PyNone, calls |-> <<>>]

NoLoad == [called |-> FALSE, dir |-> "", broken |-> {}, before |-> EmptyDict,
           after |-> EmptyDict, raised |-> FALSE, metadata |-> <<>>,
           previous |-> [called |-> FALSE, dir |-> "", broken |-> {}, after |-> EmptyDict,
                         metadata |-> <<>>]]

NoParse == [called |-> FALSE, input |-> PyNone, raised |-> FALSE, exc |-> NoExc,
            name |-> PyNone, args |-> EmptyDict, args_str |-> "", args_list |-> <<>>,
            log |-> <<>>]

NoExtraction == [called |-> FALSE, response |-> "", raised |-> FALSE, exc |-> NoExc,
                 value |-> <<>>]

Init ==
    /\ log_queue = <<>>
    /\ accumulated_logs = <<>>
    /\ thread_completed = FALSE
    /\ agent_pc = "NotStarted"
    /\ agent_script = <<>>
    /\ emitted = 0
    /\ msg = ""
    /\ ui_pc = "Idle"
    /\ current_logs = <<>>
    /\ shown = ""
    /\ accesses = {}
    /\ pr = NoParse
    /\ px = NoExtraction
    /\ function_registry = EmptyDict
    /\ registry_order = <<>>
    /\ ld = NoLoad
    /\ pc = "Idle"
    /\ user_task = ""
    /\ functions_dir = ""
    /\ subtasks = <<>>
    /\ i = 0
    /\ llm2_response = ""
    /\ subtask_result = NoSubtaskResult
    /\ results = NoResults
    /\ raised = NoExc
    /\ log = <<>>
    /\ attempts = <<>>
    /\ dispatches = <<>>
    /\ ex = NoCall

(***************************************************************************)
(* Orchestrator: main.run_agent                                            *)
(***************************************************************************)
\* lines 81-83: strip, then drop an enclosing code fence
CleanResponse(response) ==
    LET clean_response == Strip(response)
    IN  IF StartsWith(clean_response, Fence) /\ EndsWith(clean_response, Fence)
        THEN Strip(Slice(clean_response, 4, Len(clean_response) - 3))
        ELSE clean_response

\* lines 81-87 for each reply of the executor, worked out once:
\* the cleaned text and the parsed call
ReplyTable ==
    [r \in ExecutorReplies |->
        [clean |-> CleanResponse(r), parsed |-> parse_function_call(CleanResponse(r))]]

\* lines 81-83 on a reply
Cleaned(response) ==
    IF response \in DOMAIN ReplyTable THEN ReplyTable[response].clean
    ELSE CleanResponse(response)

\* lines 81-87 on a reply
Parsed(response) ==
    IF response \in DOMAIN ReplyTable THEN ReplyTable[response].parsed
    ELSE parse_function_call(CleanResponse(response))

\* the exception classes that occur; every one derives from Exception
ExceptionClasses == {"ValueError", "TypeError", "FileNotFoundError", "PermissionError",
                     "SMTPAuthenticationError"}

\* variant: "except ValueError as e"
Caught_ValueErrorOnly(exc) == exc.type = "ValueError"

\* line 100: "except Exception as e" catches exc
Caught(exc) == exc.type \in ExceptionClasses

\* variant: the parsed name is dispatched without the check of line 89
TrySubtask_NoCheck(registry, response, outcome) ==
    LET clean_response == Cleaned(response)
        parsed == Parsed(response)
        res == execute_function(registry, parsed.name.v, parsed.args, outcome)
    IN  [raised |-> res.raised, exc |-> res.exc, value |-> res.value,
         dispatched |-> <<[func_name |-> parsed.name.v, args |-> parsed.args,
                           calls |-> res.calls]>>,
         log |-> res.log]

\* lines 80-98: the try block of one attempt.
\*   [raised, exc, value, dispatched (the execute_function calls made), log]
TrySubtask(registry, response, outcome) ==
    LET clean_response == Cleaned(response)
        parsed == Parsed(response)
    IN  IF ~Truthy(parsed.name)
        THEN [raised |-> TRUE,
              exc |-> Exc("ValueError", "Could not parse function call: " \o clean_response),
              value |-> PyNone, dispatched |-> <<>>, log |-> <<>>]
        ELSE LET res == execute_function(registry, parsed.name.v, parsed.args, outcome)
             IN  [raised |-> res.raised, exc |-> res.exc, value |-> res.value,
                  dispatched |-> <<[func_name |-> parsed.name.v, args |-> parsed.args,
                                    calls |-> res.calls]>>,
                  log |-> res.log]

\* variant: the handler also stores the message of the exception as the result
RecordSubtask_ErrorAsResult(sr, try) ==
    IF try.raised
    THEN [sr EXCEPT !.success = FALSE, !.error = PyStr(try.exc.msg),
                    !.result = PyStr(try.exc.msg)]
    ELSE [sr EXCEPT !.success = TRUE, !.result = PyStr(PyToStr(try.value))]

\* lines 97-105: the SubtaskResult after the try block
RecordSubtask(sr, try) ==
    IF try.raised
    THEN [sr EXCEPT !.success = FALSE, !.error = PyStr(try.exc.msg)]
    ELSE [sr EXCEPT !.success = TRUE, !.result = PyStr(PyToStr(try.value))]

\* variant: the overall success flag follows the last attempt
RecordRun_LastWins(res, k, sr, try) ==
    LET flagged == [res EXCEPT !.success = ~try.raised,
                               !.error = IF try.raised /\ ~Truthy(res.error)
                                         THEN PyStr("Error in subtask " \o ToString(k + 1)
                                                    \o ": " \o try.exc.msg)
                                         ELSE res.error]
    IN  [flagged EXCEPT !.subtasks = Append(flagged.subtasks, sr)]

\* variant: every failure overwrites the run-level error
RecordRun_LastError(res, k, sr, try) ==
    LET failed == IF try.raised
                  THEN [res EXCEPT !.success = FALSE,
                                   !.error = PyStr("Error in subtask " \o ToString(k + 1)
                                                   \o ": " \o try.exc.msg)]
                  ELSE res
    IN  [failed EXCEPT !.subtasks = Append(failed.subtasks, sr)]

\* lines 100-107: the RunResult after the attempt of subtask k (0-based)
RecordRun(res, k, sr, try) ==
    LET failed == IF try.raised
                  THEN [res EXCEPT !.success = FALSE,
                                   !.error = IF ~Truthy(res.error)
                                             THEN PyStr("Error in subtask " \o ToString(k + 1)
                                                        \o ": " \o try.exc.msg)
                                             ELSE res.error]
                  ELSE res
    IN  [failed EXCEPT !.subtasks = Append(failed.subtasks, sr)]

\* variant: the loop is entered whatever the length of the list
AfterPlanning_Always(n) == "Executing"

\* line 64: the position of run_agent once the planner gave n subtasks
AfterPlanning(n) == IF n = 0 THEN "Done" ELSE "Executing"

\* lines 64, 110: the position of the loop after the attempt of subtask k
AfterAttempt(k, n) == IF k + 1 < n THEN "Executing" ELSE "Done"

\* the outcomes the world can give the function an executor reply names
OutcomesFor(registry, response) ==
    LET parsed == Parsed(response)
    IN  IF Truthy(parsed.name) /\ parsed.name.v \in DOMAIN registry
        THEN BodyOutcomes(registry[parsed.name.v].name)
        ELSE {Returned(PyNone)}

\* lines 36-41: run_agent is called; the functions are loaded
RunAgent(task, dir, broken) ==
    /\ pc \in {"Idle", "Done", "Raised"}
    /\ LET loaded == load_functions_from_directory(function_registry, dir, broken)
       IN  /\ function_registry' = loaded.registry
           /\ registry_order' = InsertionOrder(registry_order, loaded.registry)
           /\ log' = loaded.log
           /\ pc' = IF loaded.raised THEN "Raised" ELSE "Planning"
           /\ raised' = IF loaded.raised THEN Exc("FileNotFoundError", dir) ELSE NoExc
    /\ user_task' = task
    /\ functions_dir' = dir
    /\ subtasks' = <<>>
    /\ i' = 0
    /\ llm2_response' = ""
    /\ subtask_result' = NoSubtaskResult
    /\ results' = NoResults
    /\ attempts' = <<>>
    /\ dispatches' = <<>>
    /\ UNCHANGED <<ex, directVars, uiVars>>

\* lines 44-62: the planner round trip and the extraction of the subtasks
Plan(llm1_response) ==
    /\ pc = "Planning"
    /\ \E extracted \in {process_llm1_response(llm1_response)} :
           /\ Len(extracted.value) <= MaxSubtasks
           /\ IF extracted.raised
              THEN /\ pc' = "Raised"
                   /\ raised' = extracted.exc
                   /\ UNCHANGED <<subtasks, results>>
              ELSE /\ subtasks' = extracted.value
                   /\ results' = [task |-> user_task, subtasks |-> <<>>,
                                  success |-> TRUE, error |-> PyNone]
                   /\ pc' = AfterPlanning(Len(extracted.value))
                   /\ UNCHANGED raised
    /\ i' = 0
    /\ UNCHANGED <<function_registry, user_task, functions_dir, llm2_response, subtask_result,
                   log, attempts, dispatches, ex, registry_order, directVars, uiVars>>

\* lines 64-78: one attempt starts; the executor model is asked
CallExecutor(reply) ==
    /\ pc = "Executing"
    /\ subtask_result' = [id |-> i + 1, description |-> subtasks[i + 1],
                          function_call |-> PyNone, success |-> FALSE,
                          result |-> PyNone, error |-> PyNone]
    /\ llm2_response' = reply
    /\ attempts' = Append(attempts, [index |-> i, recorded |-> Len(results.subtasks),
                                     reply |-> reply])
    /\ pc' = "Replied"
    /\ UNCHANGED <<function_registry, user_task, functions_dir, subtasks, i, results, raised,
                   log, dispatches, ex, registry_order, directVars, uiVars>>

\* variant: the loop is left at the first failing attempt
HandleReply_ShortCircuit(outcome) ==
    /\ pc = "Replied"
    /\ \E try \in {TrySubtask(function_registry, llm2_response, outcome)} :
       LET sr == RecordSubtask(subtask_result, try)
       IN  /\ log' = log \o try.log
           /\ subtask_result' = sr
           /\ results' = RecordRun(results, i, sr, try)
           /\ i' = i + 1
           /\ pc' = IF try.raised THEN "Done" ELSE AfterAttempt(i, Len(subtasks))
           /\ UNCHANGED raised
           /\ dispatches' = dispatches \o
                  [k \in 1..Len(try.dispatched) |->
                      [subtask |-> i + 1, func_name |-> try.dispatched[k].func_name,
                       args |-> try.dispatched[k].args, calls |-> try.dispatched[k].calls]]
    /\ UNCHANGED <<function_registry, user_task, functions_dir, subtasks, llm2_response,
                   attempts, ex, registry_order, directVars, uiVars>>

\* lines 80-108: the reply is cleaned, parsed and dispatched, the result recorded
HandleReply(outcome) ==
    /\ pc = "Replied"
    /\ \E try \in {TrySubtask(function_registry, llm2_response, outcome)} :
       LET sr == RecordSubtask(subtask_result, try)
       IN  /\ log' = log \o try.log
           /\ IF try.raised /\ ~Caught(try.exc)
              THEN /\ pc' = "Raised"
                   /\ raised' = try.exc
                   /\ UNCHANGED <<subtask_result, results, i>>
              ELSE /\ subtask_result' = sr
                   /\ results' = RecordRun(results, i, sr, try)
                   /\ i' = i + 1
                   /\ pc' = AfterAttempt(i, Len(subtasks))
                   /\ UNCHANGED raised
           /\ dispatches' = dispatches \o
                  [k \in 1..Len(try.dispatched) |->
                      [subtask |-> i + 1, func_name |-> try.dispatched[k].func_name,
                       args |-> try.dispatched[k].args, calls |-> try.dispatched[k].calls]]
    /\ UNCHANGED <<function_registry, user_task, functions_dir, subtasks, llm2_response,
                   attempts, ex, registry_order, directVars, uiVars>>

Next ==
    \/ \E task \in Tasks, dir \in FunctionDirs, broken \in BrokenSets :
          RunAgent(task, dir, broken)
    \/ \E llm1_response \in PlannerReplies : Plan(llm1_response)
    \/ \E reply \in ExecutorReplies : CallExecutor(reply)
    \/ \E outcome \in OutcomesFor(function_registry, llm2_response) : HandleReply(outcome)

Spec == Init /\ [][Next]_vars

\* the loop of run_agent is sequential code: a started attempt is carried through
\* and the next one is started
FairSpec ==
    /\ Spec
    /\ WF_vars(\E reply \in ExecutorReplies : CallExecutor(reply))
    /\ WF_vars(\E outcome \in AllOutcomes : HandleReply(outcome))

(***************************************************************************)
(* Direct use of the registry and the dispatcher                           *)
(***************************************************************************)
ExecNames == {"ai_read_file", "ai_get_unique_file_types", "ai_create_folders", "ai_send_email",
              "ai_delete_all", "organize_files"}
ArgKeys == {"subject", "body", "base_path", "filepath", "cc"}
ArgValues == {PyStr("x"), PyInt("7")}

\* the argument mappings with at most MaxArgs entries
ArgMaps == UNION {[keys -> ArgValues] : keys \in {K \in SUBSET ArgKeys : Cardinality(K) <= MaxArgs}}

\* load_functions_from_directory(dir), called directly (as line 210 does)
LoadFunctions(dir, broken) ==
    /\ pc = "Idle"
    /\ ~ex.called
    /\ \E loaded \in {load_functions_from_directory(function_registry, dir, broken)} :
       \E order \in {InsertionOrder(registry_order, loaded.registry)} :
           /\ function_registry' = loaded.registry
           /\ registry_order' = order
           /\ log' = loaded.log
           /\ ld' = [called |-> TRUE, dir |-> dir, broken |-> broken,
                     before |-> function_registry, after |-> loaded.registry,
                     raised |-> loaded.raised,
                     metadata |-> extract_function_metadata(loaded.registry, order),
                     previous |-> [called |-> ld.called, dir |-> ld.dir, broken |-> ld.broken,
                                   after |-> ld.after, metadata |-> ld.metadata]]
    /\ functions_dir' = dir
    /\ UNCHANGED <<pc, user_task, subtasks, i, llm2_response, subtask_result, results, raised,
                   attempts, dispatches, ex, pr, px, uiVars>>

\* execute_function(func_name, args), called directly, once the registry is set up
ExecuteCall(func_name, args, outcome) ==
    /\ pc = "Idle"
    /\ ~ex.called
    /\ LET res == execute_function(function_registry, func_name, args, outcome)
       IN  ex' = [called |-> TRUE, func_name |-> func_name, args |-> args,
                  registry |-> function_registry, world |-> outcome,
                  raised |-> res.raised, exc |-> res.exc,
                  value |-> res.value, calls |-> res.calls]
    /\ UNCHANGED <<function_registry, pc, user_task, functions_dir, subtasks, i, llm2_response,
                   subtask_result, results, raised, log, attempts, dispatches, registry_order,
                   directVars, uiVars>>

\* the registry is set up by one load (line 210), then the dispatcher is called
NextExec ==
    \/ \E dir \in FunctionDirs, broken \in BrokenSets : ~ld.called /\ LoadFunctions(dir, broken)
    \/ \E func_name \in ExecNames, args \in ArgMaps :
          \E outcome \in (IF func_name \in DOMAIN function_registry
                           THEN BodyOutcomes(function_registry[func_name].name)
                           ELSE {Returned(PyNone)}) :
             ExecuteCall(func_name, args, outcome)

SpecExec == Init /\ [][NextExec]_vars

\* the sets of failing modules a direct load is followed through: none, each
\* position of the scan order alone, and the first and last together
LoadBrokenSets ==
    {{}} \cup {{ModuleFiles[k]} : k \in 1..Len(ModuleFiles)}
         \cup {{ModuleFiles[1], ModuleFiles[Len(ModuleFiles)]}}

NextLoad == \E dir \in FunctionDirs, broken \in LoadBrokenSets : LoadFunctions(dir, broken)

SpecLoad == Init /\ [][NextLoad]_vars

(***************************************************************************)
(* Direct use of the parser                                                *)
(***************************************************************************)
\* value texts of one key=value fragment
CoercionValues ==
    {"1", "42", "007", "1.5", "1.", ".5", "3.140", ".", "1.2.3", "-5", "1e3",
     "true", "True", "TRUE", "false", "False", "none", "None", "NONE", "null", "Null",
     "'x'", "\"x\"", "'hello, world'", "\"a, 'b', c\"", "'it\"s, ok'", "'true'", "'12'",
     "''", "x", "a b", "'x\"", "k=v", "'k=v'", "[1]", "tru"}

\* value texts that are combined two by two
PairValues ==
    {"1", "'x'", "\"y, z\"", "'it\"s, ok'", "\"don't, stop\"", "True", "null", "'a", "b'", "2.5", ""}

\* texts that are not of the form name(key=value, ...)
EdgeTexts ==
    {"", "f", "no parens", "An error occurred while generating the response.",
     "f(", "f(a=1", "f)(", "f)", ")f(", "f()", "f( )", "f (a=1)", "f\n(a=1)", " f(a=1)",
     "(a=1)", "-f(a=1)", "f.g(a=1)", "f-g(a=1)", "123(a=1)", "_f1(a=1)", "f(a=1,)", "f(a=1, )",
     "f(a=1,,b=2)", "f(x)", "f(x, a=1)", "f(a=1, a=2)", "f(a=(1,2))", "f(=3)", "f(a = 'x' )",
     "f(a=1) and g(b=2)", "call f(a=1)", "f(msg='hello, world')", "f(a=1, b='x')",
     "f(a='x'y', b=2)", "f(a=\"q\", b='x)', c=3)"}

ParserTexts ==
    {"f(a=" \o v \o ")" : v \in CoercionValues}
    \cup {"ai_send_email(subject=" \o v \o ", body=" \o w \o ")" : v \in PairValues, w \in PairValues}
    \cup EdgeTexts

\* what parse_function_call is called with: texts, and values that are not a str
ParserInputs == {PyStr(text) : text \in ParserTexts} \cup {PyNone, PyInt("7")}

\* parse_function_call(input), called directly
ParseCall(input) ==
    /\ pc = "Idle"
    /\ ~pr.called
    /\ \E out \in {ParseAny(TryParse(input), input)} :
          pr' = [called |-> TRUE, input |-> input, raised |-> out.raised, exc |-> out.exc,
                 name |-> out.name, args |-> out.args,
                 args_str |-> IF input.t = "str" THEN ArgsString(input.v) ELSE "",
                 args_list |-> IF input.t = "str" THEN ArgsList(input.v) ELSE <<>>,
                 log |-> out.log]
    /\ UNCHANGED <<function_registry, pc, user_task, functions_dir, subtasks, i, llm2_response,
                   subtask_result, results, raised, log, attempts, dispatches, ex,
                   registry_order, ld, px, uiVars>>

NextParse == \E input \in ParserInputs : ParseCall(input)

SpecParse == Init /\ [][NextParse]_vars

(***************************************************************************)
(* Direct use of the planner extraction                                    *)
(***************************************************************************)
\* what comes before, in the place of, and after the list in a planner reply
ReplyPrefixes == {"", "Plan: ", "Steps:\n", "  "}
ReplySuffixes == {"", " done", "\n"}
ReplyBodies ==
    {"['a', 'b', 'c']", "[\"a\", 'b']", "['read the file', 'send a reminder']", "[]", "[ ]",
     "['a',]", "[1, 2]", "[True, None]", "['a, b']", "['a'\n, 'b']",
     "[list files, make folders]", "['a', b]", "[{{}}]", "['a'", "a]", "[['a'], 'b']",
     "['it's']",
     "1. do x\n2. do y", "1. do x", "- do x\n- do y", "* do x\n* do y", "-. a\n*. b",
     "1) do x\n2) do y", "10. ten", "do x\ndo y", "free text", "", "  hello  ", "1.\n2. b",
     "a\n 1. x"}

PlannerTexts ==
    {a \o b \o c : a \in ReplyPrefixes, b \in ReplyBodies, c \in ReplySuffixes}

\* process_llm1_response(response), called directly
ExtractSubtasks(response) ==
    /\ pc = "Idle"
    /\ ~px.called
    /\ \E out \in {process_llm1_response(response)} :
          px' = [called |-> TRUE, response |-> response, raised |-> out.raised,
                 exc |-> out.exc, value |-> out.value]
    /\ UNCHANGED <<function_registry, pc, user_task, functions_dir, subtasks, i, llm2_response,
                   subtask_result, results, raised, log, attempts, dispatches, ex,
                   registry_order, ld, pr, uiVars>>

NextExtract == \E response \in PlannerTexts : ExtractSubtasks(response)

SpecExtract == Init /\ [][NextExtract]_vars

(***************************************************************************)
(* Log streaming: gradio_interface.AccumulatingQueueHandler and            *)
(* run_agent_with_real_time_logs                                           *)
(***************************************************************************)
\* max_logs of the handler (1000 in the source)
MaxLogs == 3
\* most records that run_agent itself logs in one run
MaxRunLogs == 1

UiTasks == {"tidy up"}

LogRecord(levelname, message) == [levelname |-> levelname, message |-> message]

\* the records run_agent logs when it logs n of them
RECURSIVE RunRecords(_)
RunRecords(n) ==
    IF n = 0 THEN <<>>
    ELSE Append(RunRecords(n - 1), LogRecord("INFO", "run_agent step " \o ToString(n)))

\* lines 64-83: what agent_execution logs, in order, when run_agent logs n
\* records and then returns or raises (the report of lines 69-81 is cut down
\* to its first and last line)
AgentScript(user_task_text, n, outcome) ==
    <<LogRecord("INFO", "Starting agent with task: " \o user_task_text)>> \o RunRecords(n) \o
    (IF outcome = "returned"
     THEN <<LogRecord("INFO", "\n===== AGENT EXECUTION RESULTS ====="),
            LogRecord("INFO", "Agent execution completed")>>
     ELSE <<LogRecord("ERROR", "Error in agent execution: boom")>>)

AgentScripts ==
    {AgentScript(t, n, outcome) : t \in UiTasks, n \in 0..MaxRunLogs, outcome \in {"returned", "raised"}}

\* self.formatter.format(record) with "%(asctime)s - %(levelname)s - %(message)s";
\* the clock reading is the number of the record
Format(record, clock) ==
    "t" \o ToString(clock) \o " - " \o record.levelname \o " - " \o record.message

RECURSIVE Join(_, _)
\* sep.join(lines)
Join(sep, lines) ==
    IF lines = <<>> THEN ""
    ELSE IF Len(lines) = 1 THEN lines[1]
    ELSE lines[1] \o sep \o Join(sep, Tail(lines))

\* the thread of agent_execution is running
AgentAlive == agent_pc \notin {"NotStarted", "Finished"}

Access(thread, store, op) ==
    [thread |-> thread, store |-> store, op |-> op, concurrent |-> AgentAlive]

\* lines 50-55: the generator is started; clear_logs empties queue and list
UIStart ==
    /\ ui_pc \in {"Idle", "Returned"}
    /\ log_queue' = <<>>
    /\ accumulated_logs' = <<>>
    /\ emitted' = 0
    /\ current_logs' = <<>>
    /\ agent_pc' = "NotStarted"
    /\ accesses' = {Access("ui", "log_queue", "get"), Access("ui", "accumulated_logs", "clear")}
    /\ ui_pc' = "FirstYield"
    /\ UNCHANGED <<thread_completed, agent_script, msg, shown, coreVars, directVars>>

\* line 58: the first yield
UIFirstYield ==
    /\ ui_pc = "FirstYield"
    /\ shown' = Join("\n", accumulated_logs)
    /\ accesses' = accesses \cup {Access("ui", "accumulated_logs", "read")}
    /\ ui_pc' = "StartThread"
    /\ UNCHANGED <<log_queue, accumulated_logs, thread_completed, agent_pc, agent_script,
                   emitted, msg, current_logs, coreVars, directVars>>

\* lines 61-89: a new Event, and the thread is started; script is what the
\* thread is going to log
UIStartThread(script) ==
    /\ ui_pc = "StartThread"
    /\ thread_completed' = FALSE
    /\ agent_script' = script
    /\ agent_pc' = "Running"
    /\ ui_pc' = "Loop"
    /\ UNCHANGED <<log_queue, accumulated_logs, emitted, msg, current_logs, shown, accesses,
                   coreVars, directVars>>

\* lines 92, 104: the test of the while loop; get_logs starts with an empty list
UILoopTest ==
    /\ ui_pc = "Loop"
    /\ ui_pc' = IF ~thread_completed \/ log_queue # <<>> THEN "GetLogs" ELSE "FinalGetLogs"
    /\ current_logs' = <<>>
    /\ accesses' = accesses \cup (IF thread_completed THEN {Access("ui", "log_queue", "empty")}
                                   ELSE {})
    /\ UNCHANGED <<log_queue, accumulated_logs, thread_completed, agent_pc, agent_script,
                   emitted, msg, shown, coreVars, directVars>>

\* lines 31-35: one turn of the loop of get_logs called at position at; the
\* generator is at position after when the queue is found empty
GetLogsStep(at, after) ==
    /\ ui_pc = at
    /\ IF log_queue # <<>>
       THEN /\ current_logs' = Append(current_logs, Head(log_queue))
            /\ log_queue' = Tail(log_queue)
            /\ accesses' = accesses \cup {Access("ui", "log_queue", "get")}
            /\ UNCHANGED ui_pc
       ELSE /\ ui_pc' = after
            /\ accesses' = accesses \cup {Access("ui", "log_queue", "empty")}
            /\ UNCHANGED <<current_logs, log_queue>>
    /\ UNCHANGED <<accumulated_logs, thread_completed, agent_pc, agent_script, emitted, msg,
                   shown, coreVars, directVars>>

\* line 94
UIGetLogs == GetLogsStep("GetLogs", "Yield")

\* lines 95-98: the yield inside the loop
UIYield ==
    /\ ui_pc = "Yield"
    /\ IF current_logs # <<>>
       THEN /\ shown' = Join("\n", accumulated_logs \o current_logs)
            /\ accesses' = accesses \cup {Access("ui", "accumulated_logs", "read")}
       ELSE UNCHANGED <<shown, accesses>>
    /\ ui_pc' = "Sleep"
    /\ UNCHANGED <<log_queue, accumulated_logs, thread_completed, agent_pc, agent_script,
                   emitted, msg, current_logs, coreVars, directVars>>

\* line 101
UISleep ==
    /\ ui_pc = "Sleep"
    /\ ui_pc' = "Loop"
    /\ UNCHANGED <<log_queue, accumulated_logs, thread_completed, agent_pc, agent_script,
                   emitted, msg, current_logs, shown, accesses, coreVars, directVars>>

\* line 104
UIFinalGetLogs == GetLogsStep("FinalGetLogs", "FinalYield")

\* lines 105-110: the last yield; the generator returns
UIFinalYield ==
    /\ ui_pc = "FinalYield"
    /\ shown' = Join("\n", accumulated_logs \o current_logs)
    /\ accesses' = accesses \cup {Access("ui", "accumulated_logs", "read")}
    /\ ui_pc' = "Returned"
    /\ UNCHANGED <<log_queue, accumulated_logs, thread_completed, agent_pc, agent_script,
                   emitted, msg, current_logs, coreVars, directVars>>

\* lines 19-20: a logging call of the thread reaches emit; the record is
\* formatted and put on the queue
AgentEmitPut ==
    /\ agent_pc = "Running"
    /\ agent_script # <<>>
    /\ msg' = Format(Head(agent_script), emitted + 1)
    /\ log_queue' = Append(log_queue, Format(Head(agent_script), emitted + 1))
    /\ agent_script' = Tail(agent_script)
    /\ emitted' = emitted + 1
    /\ accesses' = accesses \cup {Access("agent", "log_queue", "put")}
    /\ agent_pc' = "Append"
    /\ UNCHANGED <<accumulated_logs, thread_completed, ui_pc, current_logs, shown, coreVars,
                   directVars>>

\* line 23
AgentEmitAppend ==
    /\ agent_pc = "Append"
    /\ accumulated_logs' = Append(accumulated_logs, msg)
    /\ accesses' = accesses \cup {Access("agent", "accumulated_logs", "append")}
    /\ agent_pc' = "Trim"
    /\ UNCHANGED <<log_queue, thread_completed, agent_script, emitted, msg, ui_pc, current_logs,
                   shown, coreVars, directVars>>

\* lines 26-27: the list is cut to its last max_logs lines, by rebinding it
AgentEmitTrim ==
    /\ agent_pc = "Trim"
    /\ IF Len(accumulated_logs) > MaxLogs
       THEN /\ accumulated_logs' = SubSeq(accumulated_logs, Len(accumulated_logs) - MaxLogs + 1,
                                          Len(accumulated_logs))
            /\ accesses' = accesses \cup {Access("agent", "accumulated_logs", "rebind")}
       ELSE UNCHANGED <<accumulated_logs, accesses>>
    /\ agent_pc' = "Running"
    /\ UNCHANGED <<log_queue, thread_completed, agent_script, emitted, msg, ui_pc, current_logs,
                   shown, coreVars, directVars>>

\* variant: the flag is set at the end of the try block, so the handler of
\* line 82 leaves it unset
AgentFinally_FlagInTry ==
    /\ agent_pc = "Running"
    /\ agent_script = <<>>
    /\ thread_completed' = ~Contains(msg, " - ERROR - Error in agent execution: ")
    /\ agent_pc' = "Finished"
    /\ UNCHANGED <<log_queue, accumulated_logs, agent_script, emitted, msg, ui_pc, current_logs,
                   shown, accesses, coreVars, directVars>>

\* lines 84-85: finally; the flag is set and the thread ends
AgentFinally ==
    /\ agent_pc = "Running"
    /\ agent_script = <<>>
    /\ thread_completed' = TRUE
    /\ agent_pc' = "Finished"
    /\ UNCHANGED <<log_queue, accumulated_logs, agent_script, emitted, msg, ui_pc, current_logs,
                   shown, accesses, coreVars, directVars>>

NextUI ==
    \/ UIStart
    \/ UIFirstYield
    \/ \E script \in AgentScripts : UIStartThread(script)
    \/ UILoopTest
    \/ UIGetLogs
    \/ UIYield
    \/ UISleep
    \/ UIFinalGetLogs
    \/ UIFinalYield
    \/ AgentEmitPut
    \/ AgentEmitAppend
    \/ AgentEmitTrim
    \/ AgentFinally

SpecUI == Init /\ [][NextUI]_vars

\* both threads are scheduled: the thread of agent_execution runs its logging
\* calls and its finally to the end, and the generator is resumed after each
\* yield and each sleep for as long as it has not returned
FairSpecUI ==
    /\ SpecUI
    /\ WF_vars(UILoopTest)
    /\ WF_vars(UIGetLogs)
    /\ WF_vars(UIYield)
    /\ WF_vars(UISleep)
    /\ WF_vars(UIFinalGetLogs)
    /\ WF_vars(UIFinalYield)
    /\ WF_vars(AgentEmitPut)
    /\ WF_vars(AgentEmitAppend)
    /\ WF_vars(AgentEmitTrim)
    /\ WF_vars(AgentFinally)

(***************************************************************************)
(* Properties                                                              *)
(***************************************************************************)
Recorded == 1..Len(results.subtasks)
FailedIndexes == {k \in Recorded : ~results.subtasks[k].success}
InLoop == pc \in {"Executing", "Replied"}

\* the execute_function calls made for subtask k (1-based)
DispatchesOf(k) == {d \in Range(dispatches) : d.subtask = k}

\* the name the parser gets from the reply of attempt k
ParsedName(k) == Parsed(attempts[k].reply).name

\* C1: when run_agent has returned, the overall success flag is false if and
\* only if at least one recorded SubtaskResult has success false.
C1_SuccessIsConjunction ==
    pc = "Done" => ((results.success = FALSE) <=> (FailedIndexes # {}))

C1_Witness ==
    /\ pc = "Done"
    /\ results.success = FALSE
    /\ \E k \in Recorded : ~results.subtasks[k].success
    /\ \E k \in Recorded : results.subtasks[k].success

\* C2: every subtask of the planner list is attempted exactly once, one at a
\* time and in planner order, whether or not earlier subtasks failed; the
\* returned list has one entry per subtask in that order; with two subtasks,
\* the first failing on an unknown function and the second succeeding, the
\* entries are false, true and the run is unsuccessful.
C2_UnknownThenSuccess ==
    /\ Len(subtasks) = 2
    /\ \E d \in DispatchesOf(1) : d.func_name \notin DOMAIN function_registry
    /\ \E d \in DispatchesOf(2) : d.calls # <<>> /\ ~d.calls[1].raised

C2_SequentialInOrder ==
    /\ \A k \in 1..Len(attempts) : attempts[k].index = k - 1 /\ attempts[k].recorded = k - 1
    /\ pc = "Executing" => Len(attempts) = i /\ Len(results.subtasks) = i /\ i < Len(subtasks)
    /\ pc = "Replied" => Len(attempts) = i + 1 /\ Len(results.subtasks) = i
    /\ pc = "Done" =>
          /\ Len(attempts) = Len(subtasks)
          /\ Len(results.subtasks) = Len(subtasks)
          /\ \A k \in Recorded : /\ results.subtasks[k].id = k
                                 /\ results.subtasks[k].description = subtasks[k]
          /\ C2_UnknownThenSuccess =>
                /\ results.subtasks[1].success = FALSE
                /\ results.subtasks[2].success = TRUE
                /\ results.success = FALSE

C2_Witness == pc = "Done" /\ C2_UnknownThenSuccess

\* the exception attempt k ended with, from the history of the run: a reply
\* that did not parse, a name that is not registered, or a callable that raised
AttemptRaised(k) ==
    \/ DispatchesOf(k) = {}
    \/ \E d \in DispatchesOf(k) : d.calls = <<>> \/ d.calls[1].raised

AttemptMessage(k) ==
    IF DispatchesOf(k) = {}
    THEN "Could not parse function call: " \o Cleaned(attempts[k].reply)
    ELSE LET d == CHOOSE d \in DispatchesOf(k) : TRUE
         IN  IF d.calls = <<>> THEN "Function '" \o d.func_name \o "' not found in registry"
             ELSE d.calls[1].exc.msg

C3_CaughtAndRecorded ==
    /\ pc = "Raised" => attempts = <<>> /\ results = NoResults
    /\ InLoop \/ pc = "Done" => raised = NoExc
    /\ \A k \in Recorded :
          AttemptRaised(k) => /\ results.subtasks[k].success = FALSE
                              /\ results.subtasks[k].error = PyStr(AttemptMessage(k))

\* C3: an exception raised at any step of one attempt is caught inside that
\* attempt and recorded as the failure of that subtask with its message; it
\* never escapes the loop, so once planning has produced a subtask list the
\* run reaches Done.
C3_FailuresStayInTheLoop ==
    /\ []C3_CaughtAndRecorded
    /\ (InLoop ~> (pc = "Done"))

C3_Witness ==
    /\ pc = "Done"
    /\ Len(results.subtasks) = 2
    /\ \E d \in DispatchesOf(1) : d.calls # <<>> /\ d.calls[1].raised
                                  /\ d.calls[1].exc.type # "ValueError"
    /\ results.subtasks[1].success = FALSE

\* C4 as stated: the run-level error is the error string of the first failing
\* subtask, and null exactly when no subtask failed.
C4_ErrorIsFirstSubtaskError ==
    pc = "Done" =>
        IF FailedIndexes = {} THEN results.error = PyNone
        ELSE results.error = results.subtasks[Min(FailedIndexes)].error

C4_FirstError ==
    IF FailedIndexes = {} THEN results.error = PyNone
    ELSE LET k == Min(FailedIndexes)
         IN  results.error = PyStr("Error in subtask " \o ToString(k) \o ": "
                                   \o results.subtasks[k].error.v)

\* C4, amended: the run-level error is "Error in subtask k: " followed by the
\* error string of the first failing subtask k (1-based); once set it is not
\* replaced during the run, and it is null exactly when no subtask failed.
C4_ErrorIsPrefixedFirstError ==
    /\ [](InLoop \/ pc = "Done" => C4_FirstError)
    /\ [][(InLoop /\ results.error # PyNone) => results'.error = results.error]_vars

C4_Witness ==
    /\ pc = "Done"
    /\ Cardinality(FailedIndexes) = 2
    /\ results.subtasks[1].error # results.subtasks[2].error
    /\ results.error = PyStr("Error in subtask 1: " \o results.subtasks[1].error.v)

\* C5: when the planner extraction gives an empty list, run_agent goes from
\* Planning to Done with no executor call, no parse and no dispatch, and the
\* RunResult has no subtasks, success true and error null.
C5_EmptyPlanGoesToDone ==
    /\ InLoop => subtasks # <<>>
    /\ (pc = "Done" /\ subtasks = <<>>) =>
          /\ attempts = <<>>
          /\ dispatches = <<>>
          /\ results = [task |-> user_task, subtasks |-> <<>>, success |-> TRUE, error |-> PyNone]

C5_Witness ==
    pc = "Done" /\ subtasks = <<>> /\ results.task = user_task /\ user_task # ""

\* C6: when the parser gives a null function name for the reply of a subtask,
\* that subtask is recorded as a failure, execute_function is not called and no
\* registered callable is invoked for it, and nothing is raised to the caller.
C6_UnparsedReplyIsAFailure ==
    \A k \in Recorded :
        ParsedName(k) = PyNone =>
            /\ results.subtasks[k].success = FALSE
            /\ results.subtasks[k].error # PyNone
            /\ DispatchesOf(k) = {}
            /\ pc # "Raised" /\ raised = NoExc

C6_Witness ==
    /\ pc = "Done"
    /\ \E k \in Recorded : ParsedName(k) = PyNone /\ ~results.subtasks[k].success
    /\ \E k \in Recorded : DispatchesOf(k) # {}

\* C7: execute_function with a name that is not a key of the registry fails
\* with the not-registered error, whatever the arguments, and invokes no
\* registered callable.
C7_UnknownNameNotRegistered ==
    (ex.called /\ ex.func_name \notin DOMAIN ex.registry) =>
        /\ ex.raised
        /\ ex.exc = Exc("ValueError", "Function '" \o ex.func_name \o "' not found in registry")
        /\ ex.calls = <<>>

C7_Witness ==
    /\ ex.called
    /\ ex.func_name \notin DOMAIN ex.registry
    /\ ex.registry # EmptyDict
    /\ ex.args # EmptyDict

\* the parameters of the function registered under name that have no default
RequiredOf(name) == Range(Parameters(name)) \ DefaultedParameters(name)

\* C8: execute_function on a registered name invokes the callable with exactly
\* the entries of the argument mapping whose keys are declared parameters,
\* values unchanged; other keys are dropped without error; when the remaining
\* keys cover the required parameters the arguments bind and the call gives
\* what the callable gives, so it succeeds whenever the callable returns.
C8_FilteredInvocation ==
    (ex.called /\ ex.func_name \in DOMAIN ex.registry) =>
        /\ Len(ex.calls) = 1
        /\ LET c == ex.calls[1]
               declared == Range(Parameters(ex.func_name))
           IN  /\ c.func = ex.registry[ex.func_name]
               /\ DOMAIN c.kwargs = DOMAIN ex.args \cap declared
               /\ \A key \in DOMAIN c.kwargs : c.kwargs[key] = ex.args[key]
               /\ RequiredOf(ex.func_name) \subseteq DOMAIN ex.args =>
                     /\ c.bound
                     /\ ex.raised = ex.world.raised
                     /\ ex.exc = ex.world.exc
                     /\ ex.value = ex.world.value
                     /\ ~ex.world.raised => ~ex.raised

C8_Witness ==
    /\ ex.called
    /\ ex.func_name = "ai_send_email"
    /\ ex.func_name \in DOMAIN ex.registry
    /\ DOMAIN ex.args = {"subject", "body", "cc"}
    /\ ~ex.raised
    /\ DOMAIN ex.calls[1].kwargs = {"subject", "body"}

\* C9 as stated: when the invoked callable raises, the failure recorded as the
\* error of the subtask is tagged with the function name and carries the
\* original exception message.
C9_ErrorTaggedWithFunctionName ==
    \A k \in Recorded :
        \A d \in DispatchesOf(k) :
            (d.calls # <<>> /\ d.calls[1].raised) =>
                /\ Contains(results.subtasks[k].error.v, d.func_name)
                /\ Contains(results.subtasks[k].error.v, d.calls[1].exc.msg)

\* C9, amended: when the invoked callable raises, the original exception
\* reaches the caller unchanged and the error of the subtask is exactly its
\* message; the function name is attached only in the error line that
\* execute_function logs.
C9_ErrorIsOriginalMessage ==
    \A k \in Recorded :
        \A d \in DispatchesOf(k) :
            (d.calls # <<>> /\ d.calls[1].raised) =>
                /\ results.subtasks[k].success = FALSE
                /\ results.subtasks[k].error = PyStr(d.calls[1].exc.msg)
                /\ \E n \in 1..Len(log) :
                      log[n] = "Error executing function '" \o d.func_name \o "': "
                               \o d.calls[1].exc.msg

C9_Witness ==
    /\ pc = "Done"
    /\ \E k \in Recorded :
          \E d \in DispatchesOf(k) :
              /\ d.calls # <<>> /\ d.calls[1].raised
              /\ ~Contains(results.subtasks[k].error.v, d.func_name)

\* C10: load_functions_from_directory called with a path that is not an
\* existing directory fails with an error surfaced to its caller, so run_agent
\* does not proceed to planning with that path.
C10_MissingDirectoryIsFatal ==
    (pc # "Idle" /\ functions_dir \notin ExistingDirs) => (pc = "Raised" /\ raised # NoExc)

\* the ai_ functions that module m defines
AiFunctions(m) == {f \in Range(ModuleFunctions(m)) : StartsWith(f, "ai_")}

\* C11: in a load of an existing directory, a module whose import fails
\* registers nothing (what the registry held under its names is left as it
\* was), every ai_ function of every module that loads is registered under its
\* name, wherever the failing modules are in the scan order, and the load does
\* not raise.
C11_FailingModuleIsSkipped ==
    (ld.called /\ ld.dir \in ExistingDirs) =>
        /\ ~ld.raised
        /\ \A m \in ld.broken : \A f \in AiFunctions(m) :
              /\ f \in DOMAIN ld.after <=> f \in DOMAIN ld.before
              /\ f \in DOMAIN ld.after => ld.after[f] = ld.before[f]
        /\ \A m \in Range(ModuleFiles) \ ld.broken : \A f \in AiFunctions(m) :
              /\ f \in DOMAIN ld.after
              /\ ld.after[f] = [module |-> m, name |-> f]

C11_Witness ==
    /\ ld.called /\ ld.dir \in ExistingDirs
    /\ ld.broken = {ModuleFiles[1]}
    /\ ld.before = EmptyDict
    /\ "ai_read_file" \notin DOMAIN ld.after
    /\ "ai_send_email" \in DOMAIN ld.after

\* C12: when the same directory, with the same modules failing, is loaded twice
\* in a row, the registry after the second load has the same names as after
\* the first and extract_function_metadata gives the same descriptors, each
\* name once.
C12_ReloadIsIdempotent ==
    (ld.called /\ ld.previous.called /\ ld.dir = ld.previous.dir /\ ld.broken = ld.previous.broken) =>
        /\ DOMAIN ld.after = DOMAIN ld.previous.after
        /\ ld.metadata = ld.previous.metadata
        /\ Len(ld.metadata) = Cardinality(DOMAIN ld.after)
        /\ {ld.metadata[k].name : k \in 1..Len(ld.metadata)} = DOMAIN ld.after

C12_Witness ==
    /\ ld.called /\ ld.previous.called
    /\ ld.dir = ld.previous.dir /\ ld.broken = ld.previous.broken
    /\ ld.dir \in ExistingDirs
    /\ Len(ld.metadata) = 8

Quotes == {"'", "\""}

\* the open string after character c, when q was the quote character of the
\* open string before it ("" when no string is open)
QuoteAfter(q, c) ==
    IF q = "" THEN (IF c \in Quotes THEN c ELSE "")
    ELSE IF c = q THEN "" ELSE q

RECURSIVE OpenQuote(_, _)
\* the quote character of the string that is open after the first k characters
\* of s, "" when none is: a string is opened by a quote character and closed
\* by the same character only
OpenQuote(s, k) == IF k = 0 THEN "" ELSE QuoteAfter(OpenQuote(s, k - 1), Ch(s, k))

\* the commas of s that are outside every quoted string
OutsideCommas(s) == {k \in Positions(s, ",") : OpenQuote(s, k - 1) = ""}

\* the stripped pieces of s between the positions in cuts, taken in order from
\* position a on; a last piece that is empty is no piece
RECURSIVE PiecesFrom(_, _, _)
PiecesFrom(s, a, cuts) ==
    IF cuts = {}
    THEN IF a > Len(s) THEN <<>> ELSE <<Strip(Slice(s, a, Len(s)))>>
    ELSE <<Strip(Slice(s, a, Min(cuts) - 1))>> \o PiecesFrom(s, Min(cuts) + 1, cuts \ {Min(cuts)})

\* C13: the argument text is split at a comma if and only if the comma is
\* outside every quoted string, a string being closed only by the quote
\* character that opened it; f(msg='hello, world') gives {msg: "hello, world"}.
C13_SplitsOutsideQuotesOnly ==
    (pr.called /\ pr.input.t = "str") =>
        /\ pr.args_str # "" => pr.args_list = PiecesFrom(pr.args_str, 1, OutsideCommas(pr.args_str))
        /\ pr.input.v = "f(msg='hello, world')" =>
              /\ pr.name = PyStr("f")
              /\ pr.args = [k \in {"msg"} |-> PyStr("hello, world")]

C13_Witness ==
    /\ pr.called
    /\ pr.input = PyStr("ai_send_email(subject='it\"s, ok', body=\"don't, stop\")")
    /\ pr.args = [k \in {"subject", "body"} |->
                     IF k = "subject" THEN PyStr("it\"s, ok") ELSE PyStr("don't, stop")]

\* the value the rules of the claim give for the stripped value text v
ClaimedValue(v) ==
    IF \E q \in Quotes : StartsWith(v, q) /\ EndsWith(v, q)
    THEN PyStr(Slice(v, 2, Len(v) - 1))
    ELSE IF Lower(v) = "true" THEN PyBool(TRUE)
    ELSE IF Lower(v) = "false" THEN PyBool(FALSE)
    ELSE IF Lower(v) \in {"none", "null"} THEN PyNone
    ELSE IF IsDigit(v) THEN IntOf(v)
    ELSE IF Cardinality(Positions(v, ".")) = 1 /\ IsDigit(DropFirstDot(v)) THEN FloatOf(v)
    ELSE PyStr(v)

FragmentKey(arg) == Strip(Slice(arg, 1, Min(Positions(arg, "=")) - 1))
FragmentValue(arg) == Strip(Slice(arg, Min(Positions(arg, "=")) + 1, Len(arg)))

\* C14 as stated: every key=value fragment gives its key the value of the
\* ordered rules, none and null both giving null; f(a=1, b='x') gives name f
\* and {a: 1, b: "x"}.
C14_CoercionRules ==
    (pr.called /\ pr.input.t = "str") =>
        /\ \A k \in 1..Len(pr.args_list) :
              (/\ Positions(pr.args_list[k], "=") # {}
               /\ \A j \in (k + 1)..Len(pr.args_list) :
                     Positions(pr.args_list[j], "=") # {} =>
                        FragmentKey(pr.args_list[j]) # FragmentKey(pr.args_list[k]))
              => /\ FragmentKey(pr.args_list[k]) \in DOMAIN pr.args
                 /\ pr.args[FragmentKey(pr.args_list[k])] = ClaimedValue(FragmentValue(pr.args_list[k]))
        /\ pr.input.v = "f(a=1, b='x')" =>
              /\ pr.name = PyStr("f")
              /\ pr.args = [k \in {"a", "b"} |-> IF k = "a" THEN PyInt("1") ELSE PyStr("x")]

\* the text begins with a run of word characters that is followed, after
\* optional white space, by "("
BeginsWithCall(text) ==
    \E n \in 1..Len(text) : \E m \in (n + 1)..Len(text) :
        /\ \A k \in 1..n : Ch(text, k) \in WordChars
        /\ \A k \in (n + 1)..(m - 1) : Ch(text, k) \in Whitespace
        /\ Ch(text, m) = "("

\* C15: parse_function_call returns (None, {}) for every text without
\* parentheses, and for every text that does not begin with an identifier
\* followed by "(".
C15_NoCallGivesNull ==
    (pr.called /\ pr.input.t = "str") =>
        /\ (Positions(pr.input.v, "(") = {} /\ Positions(pr.input.v, ")") = {}) =>
              (pr.name = PyNone /\ pr.args = EmptyDict)
        /\ ~BeginsWithCall(pr.input.v) => (pr.name = PyNone /\ pr.args = EmptyDict)

C15_Witness ==
    /\ pr.called
    /\ pr.input = PyStr("call f(a=1)")
    /\ pr.name = PyNone /\ pr.args = EmptyDict

\* C16: parse_function_call never raises; what is raised while parsing is
\* caught and gives (None, {}), with the failure logged; the result is always
\* a pair of a name or None and a mapping.
C16_ParserNeverRaises ==
    pr.called =>
        /\ ~pr.raised /\ pr.exc = NoExc
        /\ pr.name = PyNone \/ (pr.name.t = "str" /\ pr.name.v # "")
        /\ \A key \in DOMAIN pr.args : pr.args[key].t \in {"str", "int", "float", "bool", "none"}
        /\ pr.input.t # "str" => (pr.name = PyNone /\ pr.args = EmptyDict /\ pr.log # <<>>)

C16_Witness ==
    /\ pr.called
    /\ pr.input = PyNone
    /\ pr.name = PyNone /\ pr.args = EmptyDict
    /\ pr.log = <<"Error parsing function call 'None': expected string or bytes-like object, got 'NoneType'">>

\* the response holds a "[" with a "]" after it
HasBrackets(response) ==
    \E a \in Positions(response, "[") : \E b \in Positions(response, "]") : a < b

\* where the text of a numbered or bulleted line starts: after "12." for a
\* numbered line, after "-" or "*" and white space for a bulleted one; 0 for
\* a line that is neither
ItemStart(line) ==
    LET a == Min({k \in 1..Len(line) : Ch(line, k) \notin Whitespace} \cup {Len(line) + 1})
        b == Min({k \in a..Len(line) : Ch(line, k) \notin Digits} \cup {Len(line) + 1})
    IN  IF b > a /\ b <= Len(line) /\ Ch(line, b) = "." THEN b + 1
        ELSE IF a < Len(line) /\ Ch(line, a) \in {"-", "*"} /\ Ch(line, a + 1) \in Whitespace
             THEN a + 1
             ELSE 0

RECURSIVE ClaimedItems(_, _)
\* the numbered or bulleted lines among lines[k..], markers removed
ClaimedItems(lines, k) ==
    IF k > Len(lines) THEN <<>>
    ELSE IF ItemStart(lines[k]) = 0 THEN ClaimedItems(lines, k + 1)
    ELSE <<PyStr(Strip(Slice(lines[k], ItemStart(lines[k]), Len(lines[k]))))>>
         \o ClaimedItems(lines, k + 1)

\* C17 as stated: a list literal in the response gives the parsed list;
\* without one, numbered or bulleted lines give the list of those lines with
\* the marker removed; without those the whole response text (surrounding
\* white space aside) is the single element.
C17_ThreeStrategiesInOrder ==
    px.called =>
        /\ px.response = "Plan: ['a', 'b', 'c'] done" =>
              px.value = <<PyStr("a"), PyStr("b"), PyStr("c")>>
        /\ ~HasBrackets(px.response) =>
              px.value = IF ClaimedItems(SplitLines(px.response, 1, "", <<>>), 1) # <<>>
                         THEN ClaimedItems(SplitLines(px.response, 1, "", <<>>), 1)
                         ELSE <<PyStr(Strip(px.response))>>

\* what the second and third strategies give for the response
LaterStrategies(response) ==
    IF ListItems(SplitLines(response, 1, "", <<>>), 1, <<>>) # <<>>
    THEN ListItems(SplitLines(response, 1, "", <<>>), 1, <<>>)
    ELSE <<PyStr(Strip(response))>>

\* C18 as stated: process_llm1_response never raises, and bracketed text
\* that is not a valid list literal falls through to the later strategies, so
\* that a response that is not empty never gives an empty result that way.
C18_MalformedListFallsThrough ==
    px.called =>
        /\ ~px.raised
        /\ (SearchList(px.response).found
            /\ literal_eval(SearchList(px.response).group).status # "ok") =>
              /\ px.value = LaterStrategies(px.response)
              /\ px.value # <<>>

C20_ParsedCallIsRecorded ==
    \A k \in Recorded :
        (ParsedName(k) # PyNone) <=> (results.subtasks[k].function_call # PyNone)

\* C21: every SubtaskResult of the list run_agent builds and returns is
\* well-formed: the k-th entry (0-based) has id k+1 and the k-th planner
\* subtask as description; an entry with success true has error null and a
\* non-null result; an entry with success false has a non-null error and
\* result null.
C21_SubtaskResultsWellFormed ==
    \A k \in Recorded :
        LET sr == results.subtasks[k]
        IN  /\ sr.id = k
            /\ k <= Len(subtasks) /\ sr.description = subtasks[k]
            /\ sr.success => (sr.error = PyNone /\ sr.result # PyNone)
            /\ ~sr.success => (sr.error # PyNone /\ sr.result = PyNone)

\* a returned list of two entries, one succeeded and one failed
C21_Witness ==
    /\ pc = "Done"
    /\ Len(results.subtasks) = 2
    /\ \E k \in Recorded : results.subtasks[k].success
    /\ \E k \in Recorded : ~results.subtasks[k].success
    /\ C21_SubtaskResultsWellFormed

\* the number of places of text at which piece starts
Occurrences(text, piece) ==
    Cardinality({k \in 1..(Len(text) - Len(piece) + 1) : Slice(text, k, k + Len(piece) - 1) = piece})

\* how the k-th line emitted in a run begins (its asctime, see Format)
LineStart(k) == "t" \o ToString(k) \o " - "

C23_GeneratorTerminates ==
    /\ [](agent_pc = "Finished" => thread_completed)
    /\ (agent_pc \in {"Running", "Append", "Trim", "Finished"}) ~> (ui_pc = "Returned")

\* the generator has returned after a thread in which run_agent raised, the
\* flag set and the queue drained
C23_Witness ==
    /\ ui_pc = "Returned"
    /\ agent_pc = "Finished"
    /\ thread_completed
    /\ log_queue = <<>>
    /\ Contains(msg, " - ERROR - Error in agent execution: ")
    /\ Contains(shown, msg)

====
